---- MODULE Spec2Model ----
(***************************************************************************)
(* Model of the RAG request handler of main.go: the process-wide           *)
(* chatContext (a slice of tagged strings guarded by a mutex), the         *)
(* per-request pipeline RAG(msg) run by concurrent gin handler goroutines, *)
(* and the pure prompt builder constructPrompt.                            *)
(*                                                                         *)
(* Strings are modelled as sequences of tokens (a token is an indivisible  *)
(* piece of text); string concatenation is \o.  One action is one source   *)
(* statement of RAG, so that statements of concurrent requests interleave  *)
(* exactly where the Go scheduler may interleave them.                     *)
(***************************************************************************)
EXTENDS Naturals, Sequences, FiniteSets

(* ------------------------------ bounds --------------------------------- *)
\* total number of requests received during a run
MaxRequests == 4
\* longest context sequence handed to constructPrompt when it is checked on
\* its own
MaxPromptContext == 2
\* Number of exchanges the window keeps.  main.go sets 5; the program is the
\* same for every value, and the model runs it with a small window so that
\* the window fills and evicts within MaxRequests requests.
maxContextLength == 2

\* The handler goroutines that may be inside RAG at the same time (gin runs
\* every request in a goroutine of its own).
Slots == {1, 2}

(* ------------------------- program constants --------------------------- *)
\* third argument of store.SimilaritySearch
numDocuments == 3
\* the value of mu while the mutex is unlocked
NoOne == 0

\* the message of the n-th request, and the text the LLM produces for it
\* when its call succeeds
ClientMessages == <<"a", "c", "e", "g", "i", "k">>
Answers == <<"b", "d", "f", "h", "j", "l">>
\* page contents of the stored documents, most relevant first
Corpus == <<"p1", "p2">>

(* ------------------------------ strings -------------------------------- *)
EmptyString == <<>>

\* stands for whatever memory holds behind a slice header read in a race
Garbage == <<"<garbage>">>

\* strings.Join(elems, sep)
RECURSIVE Join(_, _)
Join(elems, sep) ==
    IF Len(elems) = 0 THEN EmptyString
    ELSE IF Len(elems) = 1 THEN elems[1]
    ELSE elems[1] \o sep \o Join(Tail(elems), sep)

\* number of %s verbs in a format string
RECURSIVE CountVerbs(_)
CountVerbs(format) ==
    IF Len(format) = 0 THEN 0
    ELSE (IF Head(format) = "%s" THEN 1 ELSE 0) + CountVerbs(Tail(format))

\* the verbs of format processed left to right with one operand: the first
\* %s takes the operand, every further %s has none left
RECURSIVE Expand(_, _, _)
Expand(format, arg, used) ==
    IF Len(format) = 0 THEN EmptyString
    ELSE IF Head(format) = "%s"
         THEN (IF used THEN <<"%!s(MISSING)">> ELSE arg)
              \o Expand(Tail(format), arg, TRUE)
         ELSE <<Head(format)>> \o Expand(Tail(format), arg, used)

\* fmt.Sprintf(format, arg) with one string operand: an operand no verb
\* consumed is reported after the formatted text
Sprintf(format, arg) ==
    Expand(format, arg, FALSE)
    \o (IF CountVerbs(format) = 0
        THEN <<"%!(EXTRA string=">> \o arg \o <<")">>
        ELSE EmptyString)

(* ------------------------------ template ------------------------------- *)
defaultPromptTemplate ==
    [ SystemMessage      |-> <<"You are a helpful AI assistant. Provide concise and accurate responses based on the given context and relevant information.Only answer from the given data donot answer from anywhere else or your prior memory. If you are unable to find the answer in the data then simply answer 'I don't know.' How can I assist you further?">>,
      ContextFormat      |-> <<"Previous conversation:\n", "%s", "\n">>,
      RelevantInfoFormat |-> <<"Relevant information:\n", "%s", "\n">>,
      UserQueryFormat    |-> EmptyString ]

\* the template with the user-query format main.go keeps in a comment
queryPromptTemplate ==
    [defaultPromptTemplate EXCEPT
        !.UserQueryFormat = <<"User Query: ", "%s", "\nAssistant Response:">>]

\* the concatenation of doc.PageContent + "\n" over relevantDocs
RECURSIVE RelevantInfo(_)
RelevantInfo(relevantDocs) ==
    IF Len(relevantDocs) = 0 THEN EmptyString
    ELSE <<Head(relevantDocs), "\n">> \o RelevantInfo(Tail(relevantDocs))

\* constructPrompt that writes the relevant-info block before the context block
constructPromptInfoFirst(context, relevantDocs, userQuery, tmpl) ==
    tmpl.SystemMessage \o <<"\n\n">>
    \o (IF Len(relevantDocs) > 0
        THEN Sprintf(tmpl.RelevantInfoFormat, RelevantInfo(relevantDocs)) \o <<"\n">>
        ELSE EmptyString)
    \o (IF Len(context) > 0
        THEN Sprintf(tmpl.ContextFormat, Join(context, <<"\n">>)) \o <<"\n">>
        ELSE EmptyString)
    \o Sprintf(tmpl.UserQueryFormat, userQuery)

\* (tmpl is the parameter template)
constructPrompt(context, relevantDocs, userQuery, tmpl) ==
    tmpl.SystemMessage \o <<"\n\n">>
    \o (IF Len(context) > 0
        THEN Sprintf(tmpl.ContextFormat, Join(context, <<"\n">>)) \o <<"\n">>
        ELSE EmptyString)
    \o (IF Len(relevantDocs) > 0
        THEN Sprintf(tmpl.RelevantInfoFormat, RelevantInfo(relevantDocs)) \o <<"\n">>
        ELSE EmptyString)
    \o Sprintf(tmpl.UserQueryFormat, userQuery)

(* ------------------------------- state --------------------------------- *)
VARIABLES
    Context,       \* chatContext.Context: the window, a sequence of entries
    mu,            \* chatContext.mu: the slot holding the mutex, or NoOne
    pc,            \* per slot: the statement of chat/RAG it executes next
    msg,           \* per slot: RAG's parameter msg
    relevantDocs,  \* per slot: RAG's local relevantDocs (page contents)
    err,           \* per slot: RAG's local err is non-nil
    prompt,        \* per slot: RAG's local prompt
    response,      \* per slot: RAG's local response
    template,      \* the package variable defaultPromptTemplate
    exited,        \* log.Fatal ended the process
    started,       \* history: number of requests received so far
    reqId,         \* history: per slot, the number of the request it serves
    appended,      \* history: number of entries appended to the window
    evicted,       \* history: number of entries removed from the front
    effects        \* history: per slot, what the request did to the window

vars == <<Context, mu, pc, msg, relevantDocs, err, prompt, response, template,
          exited, started, reqId, appended, evicted, effects>>

locals == <<msg, relevantDocs, err, prompt, response>>
history == <<started, reqId, appended, evicted, effects>>

NoEffects == [user |-> 0, assistant |-> 0, evictChecks |-> 0, removed |-> 0]

\* "User: "+msg and "Assistant: "+response
UserEntry(m) == <<"User: ">> \o m
AssistantEntry(resp) == <<"Assistant: ">> \o resp

Init ==
    /\ Context = <<>>
    /\ mu = NoOne
    /\ pc = [r \in Slots |-> "idle"]
    /\ msg = [r \in Slots |-> EmptyString]
    /\ relevantDocs = [r \in Slots |-> <<>>]
    /\ err = [r \in Slots |-> FALSE]
    /\ prompt = [r \in Slots |-> EmptyString]
    /\ response = [r \in Slots |-> EmptyString]
    /\ template = defaultPromptTemplate
    /\ exited = FALSE
    /\ started = 0
    /\ reqId = [r \in Slots |-> 0]
    /\ appended = 0
    /\ evicted = 0
    /\ effects = [r \in Slots |-> NoEffects]

\* A local that no later statement of the request reads is reset where it is
\* read last (relevantDocs and prompt), so that states which differ only in
\* dead values coincide.

\* a statement of slot r runs: the process is alive and r is at statement at
At(r, at) == ~exited /\ pc[r] = at
Goto(r, to) == pc' = [pc EXCEPT ![r] = to]

(* --------------------------- chat and RAG ------------------------------ *)
\* A slot is one handler goroutine.  Goroutines have no identity the program
\* can observe, so a new request is given to the lowest idle slot.
LowestIdle(r) == \A q \in Slots : q < r => pc[q] # "idle"

\* a request enters RAG: it is the next one of the run
Enter(r) ==
    /\ started' = started + 1
    /\ reqId' = [reqId EXCEPT ![r] = started + 1]
    /\ msg' = [msg EXCEPT ![r] = <<ClientMessages[started + 1]>>]

\* chat: a POST /chat with a well-formed body arrives, RAG(msg.Msg) starts
\* and its set-up (LLM, embedder, store, collection, CSV load, AddDocuments)
\* succeeds.  The set-up touches nothing the requests share.
chat(r) ==
    /\ At(r, "idle")
    /\ LowestIdle(r)
    /\ started < MaxRequests
    /\ Enter(r)
    /\ Goto(r, "lockU")
    /\ UNCHANGED <<template, Context, mu, relevantDocs, err, prompt, response,
                   exited, appended, evicted, effects>>

\* one of the set-up calls of RAG fails: log.Fatal ends the process, and
\* with it every request in flight
Fatal(r) ==
    /\ At(r, "idle")
    /\ LowestIdle(r)
    /\ started < MaxRequests
    /\ Enter(r)
    /\ Goto(r, "setup")
    /\ exited' = TRUE
    /\ UNCHANGED <<template, Context, mu, relevantDocs, err, prompt, response,
                   appended, evicted, effects>>

\* Lock that does not wait for the mutex to be free
LockNoWait(r, at, to) ==
    /\ At(r, at)
    /\ mu' = r
    /\ Goto(r, to)
    /\ UNCHANGED <<template, Context, locals, exited, history>>

\* chatContext.mu.Lock()
Lock(r, at, to) ==
    /\ At(r, at)
    /\ mu = NoOne
    /\ mu' = r
    /\ Goto(r, to)
    /\ UNCHANGED <<template, Context, locals, exited, history>>

\* Unlock that leaves the mutex held
UnlockKeepsMutex(r, at, to) ==
    /\ At(r, at)
    /\ mu' = mu
    /\ Goto(r, to)
    /\ UNCHANGED <<template, Context, locals, exited, history>>

\* chatContext.mu.Unlock()
Unlock(r, at, to) ==
    /\ At(r, at)
    /\ mu' = NoOne
    /\ Goto(r, to)
    /\ UNCHANGED <<template, Context, locals, exited, history>>

LockUser(r) == Lock(r, "lockU", "appendU")

\* the user append followed by an eviction check of its own
AppendUserEvicts(r) ==
    /\ At(r, "appendU")
    /\ Context' = (IF Len(Context) + 1 > maxContextLength * 2
                   THEN SubSeq(Append(Context, UserEntry(msg[r])), 3, Len(Context) + 1)
                   ELSE Append(Context, UserEntry(msg[r])))
    /\ appended' = appended + 1
    /\ evicted' = (IF Len(Context) + 1 > maxContextLength * 2 THEN evicted + 2 ELSE evicted)
    /\ effects' = [effects EXCEPT ![r].user = @ + 1]
    /\ Goto(r, "unlockU")
    /\ UNCHANGED <<template, mu, locals, exited, started, reqId>>

\* chatContext.Context = append(chatContext.Context, "User: "+msg)
AppendUser(r) ==
    /\ At(r, "appendU")
    /\ Context' = Append(Context, UserEntry(msg[r]))
    /\ appended' = appended + 1
    /\ effects' = [effects EXCEPT ![r].user = @ + 1]
    /\ Goto(r, "unlockU")
    /\ UNCHANGED <<template, mu, locals, exited, started, reqId, evicted>>

UnlockUser(r) == Unlock(r, "unlockU", "search")

\* the results store.SimilaritySearch may hand back: up to numDocuments page
\* contents in relevance order
Min(a, b) == IF a < b THEN a ELSE b
SearchResults == {SubSeq(Corpus, 1, n) : n \in 0..Min(numDocuments, Len(Corpus))}

\* SimilaritySearch whose error ends the request
SimilaritySearchAborts(r) ==
    /\ At(r, "search")
    /\ \E docs \in SearchResults, failed \in BOOLEAN :
          /\ failed => Len(docs) < Len(Corpus)
          /\ relevantDocs' = [relevantDocs EXCEPT ![r] = IF failed THEN <<>> ELSE docs]
          /\ err' = [err EXCEPT ![r] = failed]
          /\ Goto(r, IF failed THEN "return" ELSE "assemble")
    /\ UNCHANGED <<template, Context, mu, msg, prompt, response, exited, history>>

\* relevantDocs, err := store.SimilaritySearch(ctx, msg, 3); an error is
\* logged and nothing else; the results that came with it stay in relevantDocs
SimilaritySearch(r) ==
    /\ At(r, "search")
    /\ \E docs \in SearchResults, failed \in BOOLEAN :
          /\ failed => Len(docs) < Len(Corpus)
          /\ relevantDocs' = [relevantDocs EXCEPT ![r] = docs]
          /\ err' = [err EXCEPT ![r] = failed]
    /\ Goto(r, "assemble")
    /\ UNCHANGED <<template, Context, mu, msg, prompt, response, exited, history>>

\* the values the unsynchronised read of chatContext.Context at the call of
\* constructPrompt may yield.  The read holds no lock, so it races with the
\* writes of the requests inside their critical sections: besides the value
\* before or after such a write (both are states of the model) it may see a
\* slice header of which only a part is written.
RacyContext(r) ==
    {Context}
    \cup (IF \E q \in Slots \ {r} : pc[q] \in {"appendU", "appendA"}
          THEN {Append(Context, Garbage)}
          ELSE {})
    \cup (IF /\ \E q \in Slots \ {r} : pc[q] = "evict"
             /\ Len(Context) > maxContextLength * 2
          THEN {SubSeq(Context, 1, Len(Context) - 2),
                SubSeq(Context, 3, Len(Context)) \o <<Garbage, Garbage>>}
          ELSE {})

\* prompt := constructPrompt(chatContext.Context, relevantDocs, msg, defaultPromptTemplate)
Assemble(r) ==
    /\ At(r, "assemble")
    /\ \E context \in RacyContext(r) :
          prompt' = [prompt EXCEPT ![r] =
              constructPrompt(context, relevantDocs[r], msg[r], template)]
    /\ relevantDocs' = [relevantDocs EXCEPT ![r] = <<>>]
    /\ Goto(r, "call")
    /\ UNCHANGED <<template, Context, mu, msg, err, response, exited, history>>

\* the window without its last entry equal to entry
RECURSIVE WithoutLast(_, _)
WithoutLast(context, entry) ==
    IF Len(context) = 0 THEN context
    ELSE IF context[Len(context)] = entry THEN SubSeq(context, 1, Len(context) - 1)
    ELSE Append(WithoutLast(SubSeq(context, 1, Len(context) - 1), entry),
                context[Len(context)])

\* Call that takes the user turn back out of the window when it fails
CallRollsBack(r) ==
    /\ At(r, "call")
    /\ \/ /\ response' = [response EXCEPT ![r] = <<Answers[reqId[r]]>>]
          /\ err' = [err EXCEPT ![r] = FALSE]
          /\ Context' = Context
       \/ /\ response' = [response EXCEPT ![r] = EmptyString]
          /\ err' = [err EXCEPT ![r] = TRUE]
          /\ Context' = WithoutLast(Context, UserEntry(msg[r]))
    /\ prompt' = [prompt EXCEPT ![r] = EmptyString]
    /\ Goto(r, "lockA")
    /\ UNCHANGED <<template, mu, msg, relevantDocs, exited, history>>

\* response, err := ollamaLLM.Call(ctx, prompt); an error is logged and
\* nothing else; the response that comes with an error is the empty string
Call(r) ==
    /\ At(r, "call")
    /\ \/ /\ response' = [response EXCEPT ![r] = <<Answers[reqId[r]]>>]
          /\ err' = [err EXCEPT ![r] = FALSE]
       \/ /\ response' = [response EXCEPT ![r] = EmptyString]
          /\ err' = [err EXCEPT ![r] = TRUE]
    /\ prompt' = [prompt EXCEPT ![r] = EmptyString]
    /\ Goto(r, "lockA")
    /\ UNCHANGED <<template, Context, mu, msg, relevantDocs, exited, history>>

LockAssistant(r) == Lock(r, "lockA", "appendA")

\* chatContext.Context = append(chatContext.Context, "Assistant: "+response)
AppendAssistant(r) ==
    /\ At(r, "appendA")
    /\ Context' = Append(Context, AssistantEntry(response[r]))
    /\ appended' = appended + 1
    /\ effects' = [effects EXCEPT ![r].assistant = @ + 1]
    /\ Goto(r, "evict")
    /\ UNCHANGED <<template, mu, locals, exited, started, reqId, evicted>>

\* the slice expression written as [:len-2]
RemoveNewest(context) == SubSeq(context, 1, Len(context) - 2)

\* the slice expression written as [1:]
RemoveOldestEntry(context) == SubSeq(context, 2, Len(context))

\* chatContext.Context[2:]
RemoveOldest(context) == SubSeq(context, 3, Len(context))

\* the eviction check with the limit set one exchange too high
EvictLate(r) ==
    /\ At(r, "evict")
    /\ IF Len(Context) > maxContextLength * 2 + 2
       THEN /\ Context' = RemoveOldest(Context)
            /\ evicted' = evicted + 2
            /\ effects' = [effects EXCEPT ![r].evictChecks = @ + 1, ![r].removed = @ + 2]
       ELSE /\ effects' = [effects EXCEPT ![r].evictChecks = @ + 1]
            /\ UNCHANGED <<Context, evicted>>
    /\ Goto(r, "unlockA")
    /\ UNCHANGED <<template, mu, locals, exited, started, reqId, appended>>

\* if len(chatContext.Context) > maxContextLength*2 { ... = chatContext.Context[2:] }
Evict(r) ==
    /\ At(r, "evict")
    /\ IF Len(Context) > maxContextLength * 2
       THEN /\ Context' = RemoveOldest(Context)
            /\ evicted' = evicted + 2
            /\ effects' = [effects EXCEPT ![r].evictChecks = @ + 1, ![r].removed = @ + 2]
       ELSE /\ effects' = [effects EXCEPT ![r].evictChecks = @ + 1]
            /\ UNCHANGED <<Context, evicted>>
    /\ Goto(r, "unlockA")
    /\ UNCHANGED <<template, mu, locals, exited, started, reqId, appended>>

UnlockAssistant(r) == Unlock(r, "unlockA", "return")

\* the value RAG hands back to chat: return response
ReturnValue(r) == response[r]

\* return response, and chat's c.JSON(201, gin.H{"message": response}); the
\* handler goroutine ends and its locals with it
Return(r) ==
    /\ At(r, "return")
    /\ msg' = [msg EXCEPT ![r] = EmptyString]
    /\ err' = [err EXCEPT ![r] = FALSE]
    /\ response' = [response EXCEPT ![r] = EmptyString]
    /\ reqId' = [reqId EXCEPT ![r] = 0]
    /\ effects' = [effects EXCEPT ![r] = NoEffects]
    /\ Goto(r, "idle")
    /\ UNCHANGED <<template, Context, mu, relevantDocs, prompt, exited, started, appended, evicted>>

Next ==
    \E r \in Slots :
        \/ chat(r)
        \/ Fatal(r)
        \/ LockUser(r)
        \/ AppendUser(r)
        \/ UnlockUser(r)
        \/ SimilaritySearch(r)
        \/ Assemble(r)
        \/ Call(r)
        \/ LockAssistant(r)
        \/ AppendAssistant(r)
        \/ Evict(r)
        \/ UnlockAssistant(r)
        \/ Return(r)

Spec == Init /\ [][Next]_vars

(* ------------------------- reading the state --------------------------- *)
\* the tag an entry starts with
Tag(entry) == entry[1]
IsUser(entry) == Tag(entry) = "User: "
IsAssistant(entry) == Tag(entry) = "Assistant: "

\* no request is between its arrival and its return
Quiescent == \A r \in Slots : pc[r] = "idle"

\* the statements of RAG that follow the return of ollamaLLM.Call
AfterCall == {"lockA", "appendA", "evict", "unlockA", "return"}

\* the prompt holds a rendered relevant-info block
HasRelevantInfo(p) == \E i \in 1..Len(p) : p[i] = "Relevant information:\n"

(* -------------------------------- C1 ----------------------------------- *)
\* C1: whenever no request is in flight, the window holds at most
\* 2*maxContextLength entries and an even number of them.
C1_WindowBound ==
    Quiescent =>
        /\ Len(Context) <= 2 * maxContextLength
        /\ Len(Context) % 2 = 0

\* quiescent after an eviction, with the window full
C1_Witness ==
    /\ Quiescent
    /\ evicted > 0
    /\ Len(Context) = 2 * maxContextLength

(* -------------------------------- C2 ----------------------------------- *)
\* C2: eviction removes a User entry together with its Assistant entry, so
\* after any eviction a non-empty window starts with a User entry.
C2_PairEviction ==
    (evicted > 0 /\ Len(Context) > 0) => IsUser(Context[1])

(* -------------------------------- C3 ----------------------------------- *)
\* C3: the read of the window that feeds constructPrompt is taken under the
\* context lock, so no request reads the window while another request is
\* inside its append/evict critical section.
C3_SnapshotUnderLock ==
    [][\A r \in Slots :
          (pc[r] = "assemble" /\ pc'[r] = "call") => mu \notin Slots \ {r}]_vars

(* -------------------------------- C4 ----------------------------------- *)
\* C4: a request that waits on the Retriever or on the Responder does not
\* hold the context lock.
C4_NoLockAcrossCalls ==
    \A r \in Slots : pc[r] \in {"search", "call"} => mu # r

\* one request waits on the Responder while another one is inside its
\* critical section
C4_Witness ==
    \E r \in Slots : \E q \in Slots \ {r} :
        pc[r] = "call" /\ mu = q /\ pc[q] = "appendA"

(* -------------------------------- C5 ----------------------------------- *)
\* C5: a request whose Responder call failed appends no Assistant entry.
C5_NoAppendOnFailure ==
    \A r \in Slots :
        (pc[r] \in AfterCall /\ err[r]) => effects[r].assistant = 0

(* -------------------------------- C6 ----------------------------------- *)
\* C6: when the Responder failed, the value RAG returns is an explicit error
\* indicator and not the empty string.
C6_ErrorIndicator ==
    \A r \in Slots :
        (pc[r] = "return" /\ err[r]) => ReturnValue(r) # EmptyString

(* -------------------------------- C7 ----------------------------------- *)
\* C7: when the Retriever returned an error, with or without partial
\* results, the prompt the Responder is called with has no relevant-info
\* block.  (At "call" err still is the error of SimilaritySearch.)
C7_EmptyPassagesOnError ==
    \A r \in Slots :
        (pc[r] = "call" /\ err[r]) => ~HasRelevantInfo(prompt[r])

(* -------------------------------- C8 ----------------------------------- *)
\* C8: at every moment the window is a contiguous suffix of the sequence of
\* all appends in the order of their critical sections: every change of the
\* window is made by the holder of the lock and either puts one whole entry
\* of that request at the end or removes entries at the front, and the
\* window length is the number of appends minus the number of evicted
\* entries.
C8_AppendSerialization ==
    /\ [](Len(Context) = appended - evicted)
    /\ [][Context' # Context =>
            \E r \in Slots :
                /\ mu = r
                /\ mu' = r
                /\ \/ /\ Context' = Append(Context, UserEntry(msg[r]))
                      /\ appended' = appended + 1
                      /\ evicted' = evicted
                   \/ /\ Context' = Append(Context, AssistantEntry(response[r]))
                      /\ appended' = appended + 1
                      /\ evicted' = evicted
                   \/ /\ \E n \in 1..Len(Context) :
                            Context' = SubSeq(Context, n + 1, Len(Context))
                      /\ appended' = appended
                      /\ evicted' = evicted + (Len(Context) - Len(Context'))]_vars

\* after an eviction the window holds the User entries of two requests next
\* to each other: their critical sections interleaved
C8_Witness ==
    /\ evicted > 0
    /\ \E i \in 1..(Len(Context) - 1) : IsUser(Context[i]) /\ IsUser(Context[i + 1])

(* -------------------------------- C9 ----------------------------------- *)
\* the statements of RAG in program order
Pipeline == <<"idle", "lockU", "appendU", "unlockU", "search", "assemble",
              "call", "lockA", "appendA", "evict", "unlockA", "return", "idle">>
StepOrder == {<<Pipeline[i], Pipeline[i + 1]>> : i \in 1..(Len(Pipeline) - 1)}

\* C9: a request takes the pipeline steps in the fixed order user append,
\* retrieval, prompt assembly, responder call, assistant append with
\* eviction check, return; none is skipped or reordered, also when retrieval
\* or generation fails.  (A request whose set-up fails never enters the
\* pipeline: log.Fatal ends the process.)
C9_StepOrder ==
    [][\A r \in Slots :
          (pc'[r] # pc[r] /\ ~exited') => <<pc[r], pc'[r]>> \in StepOrder]_vars

\* a request whose generation failed is about to return, having made its
\* user append, its assistant append and its eviction check
C9_Witness ==
    \E r \in Slots :
        /\ pc[r] = "return"
        /\ err[r]
        /\ effects[r].user = 1
        /\ effects[r].assistant = 1
        /\ effects[r].evictChecks = 1

(* -------------------------------- C10 ---------------------------------- *)
\* what a request has done to the window by the time it is at a statement
DoneBy(at) ==
    [ user        |-> IF at \in {"idle", "setup", "lockU", "appendU"} THEN 0 ELSE 1,
      assistant   |-> IF at \in {"evict", "unlockA", "return"} THEN 1 ELSE 0,
      evictChecks |-> IF at \in {"unlockA", "return"} THEN 1 ELSE 0 ]

\* C10: a request appends its User entry exactly once, an Assistant entry at
\* most once, checks for eviction at most once, and changes the window in no
\* other way: every change of the window is one of these three effects of
\* one request, and a request that records an effect changed the window by
\* exactly that effect.
C10_FrameEffect ==
    /\ [](\A r \in Slots :
            /\ effects[r].user = DoneBy(pc[r]).user
            /\ effects[r].assistant = DoneBy(pc[r]).assistant
            /\ effects[r].evictChecks = DoneBy(pc[r]).evictChecks
            /\ effects[r].removed \in {0, 2})
    /\ [][\A r \in Slots :
            /\ effects'[r].user = effects[r].user + 1
                  => Context' = Append(Context, UserEntry(msg[r]))
            /\ effects'[r].assistant = effects[r].assistant + 1
                  => Context' = Append(Context, AssistantEntry(response[r]))
            /\ effects'[r].evictChecks = effects[r].evictChecks + 1
                  => Context' \in {Context, SubSeq(Context, 3, Len(Context))}]_vars
    /\ [][Context' # Context =>
            \E r \in Slots :
                \/ effects'[r].user = effects[r].user + 1
                \/ effects'[r].assistant = effects[r].assistant + 1
                \/ effects'[r].evictChecks = effects[r].evictChecks + 1]_vars

\* a request is about to return with its three effects made, one of them an
\* eviction
C10_Witness ==
    \E r \in Slots :
        /\ pc[r] = "return"
        /\ effects[r] = [user |-> 1, assistant |-> 1, evictChecks |-> 1, removed |-> 2]

(* -------------------------------- C11 ---------------------------------- *)
\* the window holds the entry
InWindow(entry) == \E i \in 1..Len(Context) : Context[i] = entry

\* C11: an appended User entry is never removed or altered because retrieval
\* or generation failed: every step keeps all entries of the window as they
\* are, except the eviction step of a window over capacity, which removes
\* the two entries at the front; a step in which a request's err becomes
\* non-nil leaves the window as it is.
C11_NoRollback ==
    /\ [][\/ /\ Len(Context') >= Len(Context)
              /\ SubSeq(Context', 1, Len(Context)) = Context
           \/ /\ \E r \in Slots : pc[r] = "evict" /\ pc'[r] = "unlockA"
              /\ Len(Context) > maxContextLength * 2
              /\ Context' = SubSeq(Context, 3, Len(Context))]_vars
    /\ [][\A r \in Slots : (err'[r] /\ ~err[r]) => Context' = Context]_vars

\* a request whose generation failed is about to return and its User entry
\* is in the window
C11_Witness ==
    \E r \in Slots :
        /\ pc[r] = "return"
        /\ err[r]
        /\ InWindow(UserEntry(msg[r]))

(* -------------------------------- C12 ---------------------------------- *)
\* The program when its clients send a request only after the previous one
\* has returned: requests run strictly one after another.
SequentialNext ==
    \E r \in Slots :
        \/ Quiescent /\ chat(r)
        \/ Quiescent /\ Fatal(r)
        \/ LockUser(r)
        \/ AppendUser(r)
        \/ UnlockUser(r)
        \/ SimilaritySearch(r)
        \/ Assemble(r)
        \/ Call(r)
        \/ LockAssistant(r)
        \/ AppendAssistant(r)
        \/ Evict(r)
        \/ UnlockAssistant(r)
        \/ Return(r)

SequentialSpec == Init /\ [][SequentialNext]_vars

\* C12: for requests run one after another, after n completed exchanges
\* the window is exactly the last min(n, maxContextLength) User/Assistant
\* pairs in chronological order (the Assistant entry of an exchange whose
\* generation failed carries the empty response).
C12_SequentialWindow ==
    Quiescent =>
        LET n == started
            k == Min(n, maxContextLength)
        IN  /\ Len(Context) = 2 * k
            /\ \A i \in 1..k :
                  /\ Context[2 * i - 1] = UserEntry(<<ClientMessages[n - k + i]>>)
                  /\ Context[2 * i] \in {AssistantEntry(<<Answers[n - k + i]>>),
                                         AssistantEntry(EmptyString)}

\* maxContextLength + 1 exchanges have completed, all with a response: the
\* first pair is evicted and the window starts with the second request
C12_Witness ==
    /\ Quiescent
    /\ started = maxContextLength + 1
    /\ Len(Context) = 2 * maxContextLength
    /\ Context[1] = UserEntry(<<ClientMessages[2]>>)
    /\ \A i \in 1..Len(Context) : Len(Context[i]) = 2

(* -------------------------------- C13 ---------------------------------- *)
\* constructPrompt on its own: one call whose arguments are drawn from small
\* sets, held in the variables RAG passes at main.go:127 (Context,
\* relevantDocs, msg and template of the calling slot).
Caller == CHOOSE r \in Slots : \A q \in Slots : r <= q

PromptEntries ==
    {UserEntry(<<"a">>), AssistantEntry(<<"b">>), AssistantEntry(EmptyString)}
PromptContexts == UNION {[1..n -> PromptEntries] : n \in 0..MaxPromptContext}
PromptQueries == {<<"a">>, EmptyString}
PromptTemplates == {defaultPromptTemplate, queryPromptTemplate}

PromptInit ==
    /\ Context \in PromptContexts
    /\ mu = NoOne
    /\ pc = [r \in Slots |-> IF r = Caller THEN "assemble" ELSE "idle"]
    /\ \E q \in PromptQueries : msg = [r \in Slots |-> IF r = Caller THEN q ELSE EmptyString]
    /\ \E docs \in SearchResults :
          relevantDocs = [r \in Slots |-> IF r = Caller THEN docs ELSE <<>>]
    /\ err = [r \in Slots |-> FALSE]
    /\ prompt = [r \in Slots |-> EmptyString]
    /\ response = [r \in Slots |-> EmptyString]
    /\ template \in PromptTemplates
    /\ exited = FALSE
    /\ started = 0
    /\ reqId = [r \in Slots |-> 0]
    /\ appended = Len(Context)
    /\ evicted = 0
    /\ effects = [r \in Slots |-> NoEffects]

\* the call constructPrompt(context, relevantDocs, userQuery, template); the
\* arguments stay in place next to the result
PromptCall ==
    /\ pc[Caller] = "assemble"
    /\ prompt' = [prompt EXCEPT ![Caller] =
           constructPrompt(Context, relevantDocs[Caller], msg[Caller], template)]
    /\ Goto(Caller, "call")
    /\ UNCHANGED <<Context, mu, msg, relevantDocs, err, response, template,
                   exited, history>>

PromptSpec == PromptInit /\ [][PromptCall]_vars

\* the tokens the formats and constructPrompt put around the inserted texts
Literals(tmpl) ==
    {"%s", "\n", "\n\n", "%!(EXTRA string=", ")", "%!s(MISSING)"}
    \cup {tmpl.ContextFormat[i] : i \in 1..Len(tmpl.ContextFormat)}
    \cup {tmpl.RelevantInfoFormat[i] : i \in 1..Len(tmpl.RelevantInfoFormat)}
    \cup {tmpl.UserQueryFormat[i] : i \in 1..Len(tmpl.UserQueryFormat)}

\* the inserted texts of a prompt, in the order they stand in it
Inserted(p, tmpl) ==
    LET IsText(token) == token \notin Literals(tmpl)
    IN  SelectSeq(p, IsText)

\* the entries of a context sequence one after another
RECURSIVE Flatten(_)
Flatten(context) ==
    IF Len(context) = 0 THEN EmptyString
    ELSE Head(context) \o Flatten(Tail(context))

\* where a token stands in a prompt
Positions(p, token) == {i \in 1..Len(p) : p[i] = token}
HasContext(p) == Positions(p, "Previous conversation:\n") # {}

\* p ends with the string tail
EndsWith(p, tail) ==
    /\ Len(tail) <= Len(p)
    /\ SubSeq(p, Len(p) - Len(tail) + 1, Len(p)) = tail

\* C13: constructPrompt emits system message, context block, relevant-info
\* block, user query in this order; the context block is there iff the
\* context is non-empty and holds all entries in their order, the
\* relevant-info block is there iff there are passages and holds them in
\* retriever order, and the rendered user query is the last part.
C13_PromptOrder ==
    pc[Caller] = "call" =>
        LET p == prompt[Caller]
            docs == relevantDocs[Caller]
        IN  /\ Inserted(p, template) =
                   template.SystemMessage \o Flatten(Context) \o docs \o msg[Caller]
            /\ HasContext(p) <=> Len(Context) > 0
            /\ HasRelevantInfo(p) <=> Len(docs) > 0
            /\ \A i \in Positions(p, "Previous conversation:\n") :
                  \A j \in Positions(p, "Relevant information:\n") : i < j
            /\ Len(docs) > 0 =>
                  \E j \in Positions(p, "Relevant information:\n") :
                      SubSeq(p, j, j + 2 * Len(docs) + 1)
                          = <<"Relevant information:\n">> \o RelevantInfo(docs) \o <<"\n">>
            /\ EndsWith(p, Sprintf(template.UserQueryFormat, msg[Caller]))

\* a call with two context entries, two passages and a query has returned
\* a prompt with both blocks
C13_Witness ==
    /\ pc[Caller] = "call"
    /\ Context = <<UserEntry(<<"a">>), AssistantEntry(<<"b">>)>>
    /\ relevantDocs[Caller] = <<"p1", "p2">>
    /\ msg[Caller] = <<"a">>
    /\ HasContext(prompt[Caller])
    /\ HasRelevantInfo(prompt[Caller])

(* -------------------------------- C14 ---------------------------------- *)
\* the format has a place where Sprintf inserts its operand
HasInsertionPoint(format) == CountVerbs(format) > 0

\* C14: a template whose user-query format has no insertion point makes
\* the program fail fast: no request stands before the Responder call
\* (main.go:129) with a prompt assembled from such a template.
C14_FailFast ==
    \A r \in Slots :
        pc[r] = "call" => HasInsertionPoint(template.UserQueryFormat)

(* -------------------------------- C15 ---------------------------------- *)
\* C15: the eviction step restores capacity: when a request has done its
\* eviction step and is about to leave the critical section of
\* main.go:134-139, the window holds at most 2*maxContextLength entries,
\* also when several requests had appended their User entries before.
C15_EvictionRestoresCapacity ==
    \A r \in Slots :
        pc[r] = "unlockA" => Len(Context) <= 2 * maxContextLength

(* -------------------------------- C16 ---------------------------------- *)
\* the steps of RAG from main.go:118 on that do not wait for the mutex: the
\* scheduler runs a goroutine that can take one of them
Run(r) ==
    \/ AppendUser(r)
    \/ UnlockUser(r)
    \/ SimilaritySearch(r)
    \/ Assemble(r)
    \/ Call(r)
    \/ AppendAssistant(r)
    \/ Evict(r)
    \/ UnlockAssistant(r)
    \/ Return(r)

\* chatContext.mu.Lock() at main.go:118 and main.go:134
Acquire(r) == LockUser(r) \/ LockAssistant(r)

\* Scheduling: a goroutine that can run does run (weak fairness), the
\* calls to the Retriever and the Responder return (SimilaritySearch and
\* Call are steps of Run), and a goroutine waiting in Lock gets the mutex
\* if it is free again and again (sync.Mutex hands a starving waiter the
\* lock).  Arrivals of requests, chat and Fatal, are under no fairness.
Fairness ==
    \A r \in Slots : WF_vars(Run(r)) /\ SF_vars(Acquire(r))

FairSpec == Spec /\ Fairness

\* C16: every acquisition of the context lock is followed by its release,
\* and under fair scheduling with returning Retriever and Responder calls
\* every request that appended its User entry eventually returns to its
\* caller.
C16_EventuallyReturns ==
    \A r \in Slots :
        /\ (mu = r) ~> (mu # r)
        /\ (effects[r].user = 1) ~> (pc[r] = "idle")

(* -------------------------------- C17 ---------------------------------- *)
\* the requests that have appended their User entry (main.go:119) and not
\* yet their Assistant entry (main.go:135)
InFlight == {r \in Slots : effects[r].user = 1 /\ effects[r].assistant = 0}

\* the requests between their Assistant append (main.go:135) and their
\* eviction check (main.go:136)
BeforeEviction == {r \in Slots : pc[r] = "evict"}

\* C17 as stated: in every reachable state the window holds at most
\* 2*maxContextLength entries plus one for each in-flight request.
C17_InFlightBound ==
    Len(Context) <= 2 * maxContextLength + Cardinality(InFlight)

\* C17, amended: in every reachable state the window holds at most
\* 2*maxContextLength entries, plus one for each in-flight request, plus
\* two while a request stands between its Assistant append and its
\* eviction check; so once all requests have finished the window is within
\* capacity.
C17_InFlightBoundAfterEviction ==
    /\ Len(Context) <= 2 * maxContextLength + Cardinality(InFlight)
                          + 2 * Cardinality(BeforeEviction)
    /\ Quiescent => Len(Context) <= 2 * maxContextLength

\* a request is about to check for eviction while another one is in flight,
\* and the window is three entries over capacity
C17_Witness ==
    /\ Cardinality(InFlight) = 1
    /\ Cardinality(BeforeEviction) = 1
    /\ Len(Context) = 2 * maxContextLength + 3

(* -------------------------------- C18 ---------------------------------- *)
\* the string text stands somewhere in the prompt p
Contains(p, text) ==
    \E i \in 1..Len(p) :
        /\ i + Len(text) - 1 <= Len(p)
        /\ SubSeq(p, i, i + Len(text) - 1) = text

\* C18: the context sequence a request passes to constructPrompt
\* (main.go:127) contains the request's own User entry, so the prompt it
\* gets back holds that entry, whatever other requests appended and
\* evicted since the request's append.
C18_OwnEntryInPrompt ==
    \A r \in Slots :
        pc[r] = "call" => Contains(prompt[r], UserEntry(msg[r]))

====
